---- MODULE Spec2Model ----
(***************************************************************************)
(* Buffered file channel of libim: FileStream::FileStreamImpl (the         *)
(* channel: native descriptor, write buffer, logical size and offset),     *)
(* IOBuffer (the fixed write buffer) and the FileStream wrapper that       *)
(* shares the channel through a shared_ptr.  The POSIX branch of the       *)
(* source is modelled (the #else parts of the OS_WINDOWS conditionals).    *)
(*                                                                         *)
(* The file on disk is a sequence of bytes; the descriptor has its own     *)
(* offset (npos).  ::write may transfer all bytes, fewer bytes, or fail;   *)
(* ::read and lseek fail only on a descriptor that is closed or opened     *)
(* without the access they need.                                           *)
(***************************************************************************)
EXTENDS Integers, Sequences, FiniteSets, TLC

\* ------------------------------------------------------------------ bounds
\* Capacity of the write buffer.  The source has 4096; the model keeps the
\* name and scales the value so that capacity-1, capacity, capacity+1 and
\* multiples of the capacity are all within reach.
kBufferSize == 2
\* Ceiling on the written size.  The source has 1'000'000'000; scaled likewise.
MAX_WRITE_FILE_SIZE == 5
\* Largest position passed to seek (beyond the ceiling).
MaxPos == 6
\* Number of bytes the disk can hold: ::write fails beyond it.
DiskCapacity == 6
\* Largest length passed to write (twice the capacity).
MaxWriteLen == 4
\* Largest length passed to read.
MaxReadLen == 3
\* Largest length of the file that exists before the first open.
MaxInitLen == 3
\* Largest number of FileStream values sharing one channel.
MaxOwners == 2
\* The counters of native calls saturate here.
CountCap == 3
\* Largest number of ::write calls that fail or transfer fewer bytes than asked.
MaxFaults == 1
\* Largest number of calls made on the file (constructors after the first,
\* copies and destructors included).
MaxCalls == 5

VARIABLES
    life,           \* "open": a FileStreamImpl exists; "destroyed": its destructor
                    \* returned; "terminated": its destructor threw (std::terminate)
    owners,         \* use count of the shared_ptr m_fs
    mode,           \* FileStreamImpl::mode
    fileSize,       \* FileStreamImpl::fileSize
    currentOffset,  \* FileStreamImpl::currentOffset
    buffer_,        \* FileStreamImpl::buffer_: the staged bytes [begin, pos_)
    fd,             \* FileStreamImpl::fd
    disk,           \* the bytes of the file on disk
    npos,           \* the file offset of the descriptor
    pc,             \* "idle", or "write" while write() is in its loop
    length,         \* write(): parameter length
    data,           \* write(): the bytes passed by the caller
    nTotalWritten,  \* write(): local nTotalWritten
    last,           \* outcome of the last completed call
    nNativeWrites,  \* ::write calls issued for this channel
    nSyncs,         \* fsync calls issued for this channel
    nCloses,        \* ::close calls issued for this channel
    closeReturns,   \* calls of close() that have returned normally on this channel
    plain,          \* opened in Write mode and every call since was a write that
                    \* returned its full length, or a close that returned
    accepted,       \* the bytes of those writes, in order (while plain)
    prev,           \* what the previous channel left: [rt, bytes]
    faults,         \* ::write calls that failed or came back short so far
    calls,          \* calls made so far
    turn,           \* write(): parity of the iterations of the loop run so far
    natives         \* the native calls the last call has issued, in order

vars == <<life, owners, mode, fileSize, currentOffset, buffer_, fd, disk, npos,
          pc, length, data, nTotalWritten, last, nNativeWrites, nSyncs, nCloses,
          closeReturns, plain, accepted, prev, faults, calls, turn, natives>>

chanVars == <<mode, fileSize, currentOffset, buffer_, fd>>
callVars == <<pc, length, data, nTotalWritten, turn>>
countVars == <<nNativeWrites, nSyncs, nCloses>>

Modes == {"Read", "Write", "ReadWrite"}

Min(a, b) == IF a < b THEN a ELSE b
Max(a, b) == IF a > b THEN a ELSE b
Bump(c, n) == Min(c + n, CountCap)

\* The byte a caller stores at logical offset p: callers write a stream whose
\* bytes tell their position, so that a byte lost or misplaced shows on disk.
Code(p) == (p % 3) + 1

\* The bytes a caller passes to a write call of len bytes issued at offset.
Data(offset, len) == [i \in 1..len |-> Code(offset + i - 1)]

\* The files that may exist before the first open.
InitialFiles == { Data(0, n) : n \in 0..MaxInitLen }

\* --------------------------------------------------------- native layer
\* The file after bytes were written at offset pos (a gap reads as zero).
PWrite(d, pos, bytes) ==
    LET newLen == Max(Len(d), pos + Len(bytes))
    IN  [i \in 1..newLen |->
            IF i > pos /\ i <= pos + Len(bytes) THEN bytes[i - pos]
            ELSE IF i <= Len(d) THEN d[i] ELSE 0]

\* What ::write(fd, ., n) may return for n > 0: -1, or a count in 1..n.  On a
\* closed descriptor and on a full disk it fails; elsewhere it fails or comes
\* back short only while the budget of faults lasts.
NativeWrite(n) ==
    IF fd = -1 \/ npos + n > DiskCapacity THEN {-1}
    ELSE {n} \cup (IF faults < MaxFaults THEN {-1} \cup 1..(n - 1) ELSE {})

\* Whether a ::write of n bytes that returned r counts as a fault.
IsFault(n, r) == fd # -1 /\ npos + n <= DiskCapacity /\ r # n

\* What ::read(fd, ., n) returns: -1, or the count of bytes up to the end of file.
NativeRead(n) ==
    IF fd = -1 \/ mode = "Write" THEN -1
    ELSE Min(n, Max(0, Len(disk) - npos))

\* Whether lseek(fd, position, SEEK_SET) succeeds.
NativeSeekOk == fd # -1

\* ------------------------------------------------------------ IOBuffer
\* IOBufferWrite, were the size taken as it came.
IOBufferWrite_Unclamped(cursor, size) == size

\* IOBuffer::write: the number of bytes accepted with cursor bytes already staged.
IOBufferWrite(cursor, size) == Min(size, kBufferSize - cursor)

\* ------------------------------------------------------- FileStreamImpl
\* The channel a constructor call leaves, on file d.
Opened(m, truncate, d) ==
    LET removed == IF truncate /\ m # "Read" THEN <<>> ELSE d
        content == IF m = "Read" THEN removed ELSE <<>>     \* O_TRUNC
    IN  [mode |-> m, disk |-> content, fileSize |-> Len(content)]

Result(op, err, ret, bytes) == [op |-> op, err |-> err, ret |-> ret, data |-> bytes]

\* Flush, were the buffer not reset after the ::write.
Flush_KeepsBuffer(buf) ==
    IF mode \in {"Write", "ReadWrite"} /\ buf # <<>>
    THEN { [thrown |-> r = -1,
            nFlushed |-> IF r = -1 THEN 0 ELSE r,
            buffer |-> buf,
            disk |-> IF r = -1 THEN disk ELSE PWrite(disk, npos, SubSeq(buf, 1, r)),
            npos |-> IF r = -1 THEN npos ELSE npos + r,
            calls |-> 1, asked |-> Len(buf),
            fault |-> IF IsFault(Len(buf), r) THEN 1 ELSE 0] : r \in NativeWrite(Len(buf)) }
    ELSE { [thrown |-> FALSE, nFlushed |-> 0, buffer |-> buf,
            disk |-> disk, npos |-> npos, calls |-> 0, asked |-> 0, fault |-> 0] }

\* flush(): the outcomes with buf staged.  thrown: the exception of line 234.
Flush(buf) ==
    IF mode \in {"Write", "ReadWrite"} /\ buf # <<>>
    THEN { [thrown |-> r = -1,
            nFlushed |-> IF r = -1 THEN 0 ELSE r,
            buffer |-> IF r = -1 THEN buf ELSE <<>>,
            disk |-> IF r = -1 THEN disk ELSE PWrite(disk, npos, SubSeq(buf, 1, r)),
            npos |-> IF r = -1 THEN npos ELSE npos + r,
            calls |-> 1, asked |-> Len(buf),
            fault |-> IF IsFault(Len(buf), r) THEN 1 ELSE 0] : r \in NativeWrite(Len(buf)) }
    ELSE { [thrown |-> FALSE, nFlushed |-> 0, buffer |-> buf,
            disk |-> disk, npos |-> npos, calls |-> 0, asked |-> 0, fault |-> 0] }

\* A native call: its name and the count or position it was given.
Native(call, n) == [call |-> call, n |-> n]

\* The ::write a flush with outcome f has issued, if any.
Issued(f) == IF f.calls = 1 THEN <<Native("write", f.asked)>> ELSE <<>>

\* Extended, were the size never extended, and were it to follow the offset.
Extended_Never(offset, size) == size

Extended_ToOffset(offset, size) == offset

\* The logical size after the offset became offset.
Extended(offset, size) == IF offset > size THEN offset ELSE size

Init ==
    \E m \in Modes, truncate \in BOOLEAN, d \in InitialFiles :
        LET o == Opened(m, truncate, d) IN
        /\ life = "open" /\ owners = 1
        /\ mode = o.mode /\ fileSize = o.fileSize /\ currentOffset = 0
        /\ buffer_ = <<>> /\ fd = 3
        /\ disk = o.disk /\ npos = 0
        /\ pc = "idle" /\ length = 0 /\ data = <<>> /\ nTotalWritten = 0 /\ turn = 0
        /\ last = Result("open", "none", 0, <<>>)
        /\ nNativeWrites = 0 /\ nSyncs = 0 /\ nCloses = 0
        /\ closeReturns = 0 /\ plain = (m = "Write") /\ accepted = <<>>
        /\ prev = [rt |-> FALSE, bytes |-> <<>>]
        /\ faults = 0
        /\ calls = 0
        /\ natives = <<Native("open", 0)>>

Idle == life = "open" /\ pc = "idle"

\* A caller makes one more call.
Called == calls < MaxCalls /\ calls' = calls + 1

\* FileStream::seek -> FileStreamImpl::seek
Seek(position) ==
    /\ Idle /\ Called
    /\ \E f \in Flush(buffer_) :
        /\ buffer_' = f.buffer /\ disk' = f.disk
        /\ nNativeWrites' = Bump(nNativeWrites, f.calls) /\ faults' = faults + f.fault
        /\ IF f.thrown
           THEN /\ last' = Result("seek", "WriteError", 0, <<>>)
                /\ natives' = Issued(f)
                /\ UNCHANGED <<npos, currentOffset, fileSize>>
           ELSE IF ~NativeSeekOk
           THEN /\ last' = Result("seek", "SeekError", 0, <<>>)
                /\ natives' = Issued(f) \o <<Native("lseek", position)>>
                /\ npos' = f.npos
                /\ UNCHANGED <<currentOffset, fileSize>>
           ELSE /\ last' = Result("seek", "none", 0, <<>>)
                /\ natives' = Issued(f) \o <<Native("lseek", position)>>
                /\ npos' = position
                /\ currentOffset' = position
                /\ fileSize' = Extended(position, fileSize)
    /\ plain' = FALSE /\ accepted' = <<>>
    /\ UNCHANGED <<life, owners, mode, fd, callVars, nSyncs, nCloses, closeReturns, prev>>

\* FileStream::writesome -> FileStreamImpl::write: entry, nTotalWritten = 0.
WriteCall(len) ==
    /\ Idle /\ Called
    /\ pc' = "write" /\ length' = len /\ data' = Data(currentOffset, len)
    /\ nTotalWritten' = 0 /\ turn' = 0 /\ natives' = <<>>
    /\ UNCHANGED <<life, owners, chanVars, disk, npos, last, countVars, closeReturns, plain,
                   accepted, prev, faults>>

\* write() returns or throws: the call is over.
WriteEnds(err, ret) ==
    /\ pc' = "idle" /\ length' = 0 /\ data' = <<>> /\ nTotalWritten' = 0 /\ turn' = 0
    /\ last' = Result("write", err, ret, <<>>)
    /\ IF plain /\ closeReturns = 0 /\ err = "none" /\ ret = length
       THEN plain' = TRUE /\ accepted' = accepted \o data
       ELSE plain' = FALSE /\ accepted' = <<>>

\* LimitReached, were the ceiling itself allowed to be reached.
LimitReached_Strict(offset, total) == offset + total > MAX_WRITE_FILE_SIZE

\* Whether write() throws on the ceiling with total bytes staged by the call.
LimitReached(offset, total) == offset + total >= MAX_WRITE_FILE_SIZE

\* MustFlush, were the buffer flushed also when it took the whole length.
MustFlush_OrEqual(nWritten, len) == nWritten <= len

\* Whether an iteration of write() that accepted nWritten bytes calls flush().
MustFlush(nWritten, len) == nWritten < len

\* Whether write() returns early after a flush that transferred nFlushed bytes.
ShortFlush(nFlushed, nWritten) == nFlushed < nWritten

\* One iteration of the do-while loop of FileStreamImpl::write.
WriteLoop ==
    /\ life = "open" /\ pc = "write"
    /\ LET nWritten == IOBufferWrite(Len(buffer_), length - nTotalWritten)
           staged == buffer_ \o SubSeq(data, nTotalWritten + 1, nTotalWritten + nWritten)
           flushes == MustFlush(nWritten, length)
           total == nTotalWritten + nWritten
       IN \E f \in (IF flushes THEN Flush(staged)
                    ELSE {[thrown |-> FALSE, nFlushed |-> 0, buffer |-> staged,
                           disk |-> disk, npos |-> npos, calls |-> 0, asked |-> 0,
                           fault |-> 0]}) :
          /\ buffer_' = f.buffer /\ disk' = f.disk /\ npos' = f.npos
          /\ nNativeWrites' = Bump(nNativeWrites, f.calls) /\ faults' = faults + f.fault
          /\ natives' = natives \o Issued(f)
          /\ IF f.thrown
             THEN /\ WriteEnds("WriteError", 0)
                  /\ UNCHANGED <<currentOffset, fileSize>>
             ELSE IF flushes /\ ShortFlush(f.nFlushed, nWritten)
             THEN /\ WriteEnds("none", f.nFlushed)
                  /\ UNCHANGED <<currentOffset, fileSize>>
             ELSE IF LimitReached(currentOffset, total)
             THEN /\ WriteEnds("SizeLimitExceeded", 0)
                  /\ UNCHANGED <<currentOffset, fileSize>>
             ELSE IF total < length
             THEN /\ nTotalWritten' = total /\ turn' = 1 - turn
                  /\ UNCHANGED <<pc, length, data, last, plain, accepted,
                                 currentOffset, fileSize>>
             ELSE /\ WriteEnds("none", total)
                  /\ currentOffset' = currentOffset + total
                  /\ fileSize' = Extended(currentOffset + total, fileSize)
    /\ UNCHANGED <<life, owners, mode, fd, nSyncs, nCloses, closeReturns, prev, calls>>

\* Clamp, were the length passed on as it came.
Clamp_None(offset, len, size) == len

\* The length readsome passes on: clamped at the logical end of the file.
Clamp(offset, len, size) == IF offset + len >= size THEN size - offset ELSE len

\* FileStream::readsome -> FileStreamImpl::read
Readsome(len) ==
    /\ Idle /\ Called
    /\ natives' = <<Native("read", Clamp(currentOffset, len, fileSize))>>
    /\ LET n == NativeRead(Clamp(currentOffset, len, fileSize)) IN
        IF n = -1
        THEN /\ last' = Result("read", "ReadError", 0, <<>>)
             /\ UNCHANGED <<npos, currentOffset>>
        ELSE /\ last' = Result("read", "none", n, SubSeq(disk, npos + 1, npos + n))
             /\ npos' = npos + n
             /\ currentOffset' = currentOffset + n
    /\ plain' = FALSE /\ accepted' = <<>>
    /\ UNCHANGED <<life, owners, mode, fileSize, buffer_, fd, disk, callVars,
                   countVars, closeReturns, prev, faults>>

\* CloseHandle, were the descriptor field not reset after ::close.
CloseHandle_KeepsFd(f) ==
    /\ buffer_' = f.buffer /\ disk' = f.disk /\ npos' = f.npos
    /\ nNativeWrites' = Bump(nNativeWrites, f.calls) /\ faults' = faults + f.fault
    /\ IF fd > 0
       THEN /\ nSyncs' = (IF mode \in {"Write", "ReadWrite"}
                          THEN Bump(nSyncs, 1) ELSE nSyncs)
            /\ nCloses' = Bump(nCloses, 1)
            /\ fd' = fd
            /\ natives' = Issued(f) \o (IF mode \in {"Write", "ReadWrite"}
                                        THEN <<Native("fsync", 0)>> ELSE <<>>)
                                   \o <<Native("close", 0)>>
       ELSE /\ natives' = Issued(f)
            /\ UNCHANGED <<nSyncs, nCloses, fd>>

\* The body of FileStreamImpl::close after a flush with outcome f that did not throw.
CloseHandle(f) ==
    /\ buffer_' = f.buffer /\ disk' = f.disk /\ npos' = f.npos
    /\ nNativeWrites' = Bump(nNativeWrites, f.calls) /\ faults' = faults + f.fault
    /\ IF fd > 0
       THEN /\ nSyncs' = (IF mode \in {"Write", "ReadWrite"}
                          THEN Bump(nSyncs, 1) ELSE nSyncs)
            /\ nCloses' = Bump(nCloses, 1)
            /\ fd' = -1
            /\ natives' = Issued(f) \o (IF mode \in {"Write", "ReadWrite"}
                                        THEN <<Native("fsync", 0)>> ELSE <<>>)
                                   \o <<Native("close", 0)>>
       ELSE /\ natives' = Issued(f)
            /\ UNCHANGED <<nSyncs, nCloses, fd>>

\* FileStream::close -> FileStreamImpl::close
Close ==
    /\ Idle /\ Called
    /\ \E f \in Flush(buffer_) :
        IF f.thrown
        THEN /\ last' = Result("close", "WriteError", 0, <<>>)
             /\ plain' = FALSE /\ accepted' = <<>> /\ natives' = Issued(f)
             /\ nNativeWrites' = Bump(nNativeWrites, f.calls) /\ faults' = faults + f.fault
             /\ UNCHANGED <<buffer_, disk, npos, fd, nSyncs, nCloses, closeReturns>>
        ELSE /\ CloseHandle(f)
             /\ last' = Result("close", "none", 0, <<>>)
             /\ closeReturns' = Bump(closeReturns, 1)
             /\ UNCHANGED <<plain, accepted>>
    /\ UNCHANGED <<life, owners, mode, fileSize, currentOffset, callVars, prev>>

\* A FileStream is copied: one more owner of the channel.
Alias ==
    /\ Idle /\ Called /\ owners < MaxOwners
    /\ owners' = owners + 1 /\ natives' = <<>>
    /\ UNCHANGED <<life, chanVars, disk, npos, callVars, last, countVars, closeReturns,
                   plain, accepted, prev, faults>>

\* A FileStream is destroyed; the last one runs ~FileStreamImpl, which calls close().
Release ==
    /\ Idle /\ Called
    /\ owners' = owners - 1
    /\ IF owners > 1
       THEN /\ natives' = <<>>
            /\ UNCHANGED <<life, buffer_, fd, disk, npos, last, countVars, closeReturns,
                           plain, accepted, prev, faults>>
       ELSE \E f \in Flush(buffer_) :
            IF f.thrown
            THEN /\ life' = "terminated"
                 /\ last' = Result("release", "WriteError", 0, <<>>)
                 /\ natives' = Issued(f)
                 /\ nNativeWrites' = Bump(nNativeWrites, f.calls) /\ faults' = faults + f.fault
                 /\ prev' = [rt |-> FALSE, bytes |-> <<>>]
                 /\ plain' = FALSE /\ accepted' = <<>>
                 /\ UNCHANGED <<buffer_, disk, npos, fd, nSyncs, nCloses, closeReturns>>
            ELSE /\ life' = "destroyed"
                 /\ CloseHandle(f)
                 /\ last' = Result("release", "none", 0, <<>>)
                 /\ prev' = [rt |-> plain, bytes |-> accepted]
                 /\ UNCHANGED <<closeReturns, plain, accepted>>
    /\ UNCHANGED <<mode, fileSize, currentOffset, callVars>>

\* A new FileStream is constructed on the file the destroyed channel left.
Reopen(m, truncate) ==
    /\ life = "destroyed" /\ Called
    /\ LET o == Opened(m, truncate, disk) IN
        /\ life' = "open" /\ owners' = 1
        /\ mode' = o.mode /\ fileSize' = o.fileSize /\ currentOffset' = 0
        /\ buffer_' = <<>> /\ fd' = 3
        /\ disk' = o.disk /\ npos' = 0
    /\ last' = Result("open", "none", 0, <<>>) /\ natives' = <<Native("open", 0)>>
    /\ nNativeWrites' = 0 /\ nSyncs' = 0 /\ nCloses' = 0
    /\ closeReturns' = 0 /\ plain' = (m = "Write") /\ accepted' = <<>>
    /\ prev' = (IF m = "Read" THEN prev ELSE [rt |-> FALSE, bytes |-> <<>>])
    /\ UNCHANGED <<callVars, faults>>

Next ==
    \/ \E len \in 0..MaxWriteLen : WriteCall(len)
    \/ WriteLoop
    \/ \E len \in 0..MaxReadLen : Readsome(len)
    \/ \E position \in 0..MaxPos : Seek(position)
    \/ Close
    \/ Alias
    \/ Release
    \/ \E m \in Modes, truncate \in BOOLEAN : Reopen(m, truncate)

Spec == Init /\ [][Next]_vars

\* A call of write() that is in its loop keeps running: the loop makes no
\* blocking call but ::write, which returns.
FairSpec == Spec /\ WF_vars(WriteLoop)

\* ------------------------------------------------------------------ claims
Writable == mode \in {"Write", "ReadWrite"}
Readable == mode \in {"Read", "ReadWrite"}

\* The names of the native calls in a log, in order.
Names(log) == [i \in DOMAIN log |-> log[i].call]

\* C1: the logical offset never exceeds the logical size: tell() <= size() after
\* every call (and inside write()), whatever the calls returned.
C1_OffsetWithinSize == currentOffset <= fileSize

\* A seek back into a file grown by writes, after a write that came back short
\* or failed earlier on.
C1_Witness ==
    /\ last.op = "seek" /\ last.err = "none" /\ Writable
    /\ 0 < currentOffset /\ currentOffset < fileSize /\ faults > 0

\* C2: round trip.  A channel opened in Write mode takes N bytes in write calls
\* that all return their full length and is closed; the file reopened in Read
\* mode has size() = N and holds those N bytes, and a read from offset 0 returns
\* them in order.
C2_RoundTrip ==
    (life = "open" /\ mode = "Read" /\ prev.rt)
        => /\ last.op = "open" => (fileSize = Len(prev.bytes) /\ disk = prev.bytes)
           /\ (last.op = "read" /\ last.err = "none" /\ currentOffset = last.ret)
                => last.data = SubSeq(prev.bytes, 1, last.ret)

\* The round trip where every ::write transferred all it was given.
RoundTripWithoutFaults == faults = 0 => C2_RoundTrip

\* A read, a seek, or a write of at least one byte comes to its end in this step.
CallEnds ==
    \/ \E len \in 0..MaxReadLen : Readsome(len)
    \/ \E position \in 0..MaxPos : Seek(position)
    \/ WriteLoop /\ pc' = "idle" /\ length > 0

\* C3: once close() has returned, every read, write and seek on the channel
\* fails, and leaves size(), tell() and the write buffer as they were.
C3_UseAfterCloseFails ==
    [][(closeReturns > 0 /\ CallEnds)
        => (last'.err # "none" /\ UNCHANGED <<fileSize, currentOffset, buffer_>>)]_vars

\* C4: a close() issued right after a close() that returned normally issues no
\* ::write, no fsync and no ::close, raises nothing, and leaves size, offset,
\* buffer, descriptor and file as they were.
C4_CloseIdempotent ==
    [][(last.op = "close" /\ last.err = "none" /\ Close)
        => (/\ last'.err = "none"
            /\ UNCHANGED <<fileSize, currentOffset, buffer_, fd, disk, npos,
                           nNativeWrites, nSyncs, nCloses>>)]_vars

\* Two calls of close() have returned on a channel whose descriptor was closed once.
C4_Witness ==
    /\ last.op = "close" /\ closeReturns = 2 /\ nCloses = 1 /\ fd = -1 /\ Writable

\* C5 as stated: after a write has failed on the ceiling, size() does not
\* exceed the ceiling.
C5_SizeWithinLimitAfterFailure ==
    (last.op = "write" /\ last.err = "SizeLimitExceeded")
        => fileSize <= MAX_WRITE_FILE_SIZE

\* C5 as amended: an iteration of write() that brings the cumulative offset to
\* the ceiling ends the call, with SizeLimitExceeded unless the flush of that
\* iteration failed (WriteError) or came back short (a return of fewer bytes
\* than the iteration staged); a write that returns its full length ends below
\* the ceiling; a write that fails on the ceiling leaves size() and tell() as
\* they were; and no write raises size() to the ceiling or beyond (a size at or
\* beyond it comes from a seek).
C5_WriteKeepsSizeBelowLimit ==
    [][WriteLoop =>
        LET nWritten == IOBufferWrite(Len(buffer_), length - nTotalWritten) IN
        /\ fileSize' = fileSize \/ fileSize' < MAX_WRITE_FILE_SIZE
        /\ currentOffset + nTotalWritten + nWritten >= MAX_WRITE_FILE_SIZE
             => /\ pc' = "idle"
                /\ last'.err \in {"SizeLimitExceeded", "WriteError", "none"}
                /\ last'.err = "none" => last'.ret < nWritten
        /\ (pc' = "idle" /\ last'.err = "none" /\ last'.ret = length)
             => currentOffset + length < MAX_WRITE_FILE_SIZE
        /\ (pc' = "idle" /\ last'.err = "SizeLimitExceeded")
             => UNCHANGED <<fileSize, currentOffset>>]_vars

\* A write has failed on the ceiling on a file grown by earlier writes.
C5_Witness ==
    /\ last.op = "write" /\ last.err = "SizeLimitExceeded" /\ Writable
    /\ 0 < fileSize /\ fileSize < MAX_WRITE_FILE_SIZE /\ Len(disk) > 0

\* C6: a write that fails on the ceiling has staged no byte whose logical offset
\* is at or beyond the ceiling (the bytes an iteration stages lie at the offsets
\* currentOffset + nTotalWritten and up; once staged they are flushed).
C6_NoByteBeyondLimitStaged ==
    [][(WriteLoop /\ pc' = "idle" /\ last'.err = "SizeLimitExceeded")
        => currentOffset + nTotalWritten
             + IOBufferWrite(Len(buffer_), length - nTotalWritten)
           <= MAX_WRITE_FILE_SIZE]_vars

\* C7 as stated, on a channel whose descriptor is open: a read whose length
\* would cross size() returns exactly size() - tell() bytes and raises nothing.
C7_ReadReturnsExactlyToSize ==
    [][\A len \in 0..MaxReadLen :
        (Readsome(len) /\ Readable /\ fd # -1 /\ currentOffset + len >= fileSize)
            => (last'.err = "none" /\ last'.ret = fileSize - currentOffset)]_vars

\* C7 as amended: such a read raises nothing and returns the bytes the file
\* holds at the descriptor's offset, at most size() - tell() of them; at
\* tell() = size() it returns none.
C7_ReadClampedToSize ==
    [][\A len \in 0..MaxReadLen :
        (Readsome(len) /\ Readable /\ fd # -1 /\ currentOffset + len >= fileSize)
            => /\ last'.err = "none"
               /\ last'.ret <= fileSize - currentOffset
               /\ last'.ret = Min(fileSize - currentOffset, Max(0, Len(disk) - npos))
               /\ currentOffset = fileSize => last'.ret = 0
               /\ currentOffset' = currentOffset + last'.ret]_vars

\* A read asked for more than is left and got all that is left.
C7_Witness ==
    /\ last.op = "read" /\ last.err = "none" /\ 0 < last.ret /\ last.ret < MaxReadLen
    /\ currentOffset = fileSize /\ currentOffset > last.ret

\* C8: a seek(P) that succeeds leaves tell() = P and size() = max(old size(), P).
C8_SeekSetsOffsetAndSize ==
    [][\A position \in 0..MaxPos :
        (Seek(position) /\ last'.err = "none")
            => (/\ currentOffset' = position
                /\ fileSize' = Max(fileSize, position))]_vars

\* C9: a channel opened in Write mode that took exactly kBufferSize bytes in
\* writes that returned in full, and was then closed, has issued one ::write;
\* with kBufferSize + 1 bytes it has issued two.
C9_BoundaryFlushCount ==
    (plain /\ closeReturns = 1 /\ last.op = "close")
        => /\ Len(accepted) = kBufferSize => nNativeWrites = 1
           /\ Len(accepted) = kBufferSize + 1 => nNativeWrites = 2

\* kBufferSize + 1 bytes written and the channel closed.
C9_Witness ==
    /\ plain /\ closeReturns = 1 /\ last.op = "close"
    /\ Len(accepted) = kBufferSize + 1 /\ nNativeWrites = 2

\* C10: over the life of a channel ::close is issued once: not twice, and once
\* the destructor has run not zero times.
C10_HandleReleasedOnce ==
    /\ nCloses <= 1
    /\ life \in {"destroyed", "terminated"} => nCloses = 1

\* A seek beyond the size with nothing written there: the size is the position.
C8_Witness ==
    /\ last.op = "seek" /\ last.err = "none"
    /\ currentOffset > 0 /\ fileSize = currentOffset /\ Len(disk) < fileSize
    /\ buffer_ = <<>>

\* close() returns normally, or the destructor of the channel does.
CloseReturns == (Close /\ last'.err = "none") \/ (Release /\ life' = "destroyed")

\* Every pair of calls in the log is in the order of ranks.
InOrder(log, rank) ==
    \A i, j \in DOMAIN log : i < j => rank[log[i].call] < rank[log[j].call]

\* What a closing step leaves: nothing staged, the staged bytes in the file at
\* their positions, the native calls in the order ::write, fsync, ::close, and
\* no fsync on a channel opened in Read mode.
ClosedInOrder ==
    /\ Writable =>
         /\ buffer_' = <<>>
         /\ disk' = (IF buffer_ = <<>> THEN disk ELSE PWrite(disk, npos, buffer_))
         /\ InOrder(natives', [c \in {"write", "fsync", "close"} |->
                                 IF c = "write" THEN 1 ELSE IF c = "fsync" THEN 2 ELSE 3])
         /\ fd > 0 => Names(natives') = (IF buffer_ = <<>> THEN <<>> ELSE <<"write">>)
                                           \o <<"fsync", "close">>
    /\ ~Writable => \A i \in DOMAIN natives' : natives'[i].call # "fsync"

\* C11: when close() or the destructor returns on a channel opened for writing,
\* the buffer is empty, every staged byte has gone to the file, and the steps
\* came in the order flush, sync, release; the sync is issued only for a
\* channel opened for writing.
C11_BufferedWritesNotLostAtClose == [][CloseReturns => ClosedInOrder]_vars

\* The same where the closing ::write transferred all it was given.
BufferedWritesNotLostWithoutFaults ==
    [][(CloseReturns /\ faults' = faults) => ClosedInOrder]_vars

\* C12: a seek on a channel with staged bytes that returns normally has written
\* all staged bytes at their positions before it moved the descriptor, and
\* leaves the buffer empty, also when ::write transferred fewer bytes than staged.
C12_SeekFlushLosesNothing ==
    [][\A position \in 0..MaxPos :
        (Seek(position) /\ Writable /\ buffer_ # <<>> /\ last'.err = "none")
            => /\ buffer_' = <<>>
               /\ disk' = PWrite(disk, npos, buffer_)
               /\ Names(natives') = <<"write", "lseek">>
               /\ natives'[1].n = Len(buffer_)
               /\ npos' = position]_vars

\* The same where the ::write of the seek transferred all it was given.
SeekFlushWithoutFaults ==
    [][\A position \in 0..MaxPos :
        (Seek(position) /\ Writable /\ buffer_ # <<>> /\ last'.err = "none"
           /\ faults' = faults)
            => /\ buffer_' = <<>>
               /\ disk' = PWrite(disk, npos, buffer_)
               /\ Names(natives') = <<"write", "lseek">>
               /\ natives'[1].n = Len(buffer_)
               /\ npos' = position]_vars

\* An iteration of write() flushes, and its ::write transfers fewer bytes than
\* the buffer held (the bytes of earlier calls and of this iteration).
FlushCameBackShort ==
    /\ WriteLoop
    /\ Len(natives') = Len(natives) + 1
    /\ 0 < npos' - npos /\ npos' - npos < natives'[Len(natives')].n

\* C13: whenever a flush inside write() transfers fewer bytes than were staged,
\* write() returns at once, without error, a count below the length it was given.
C13_ShortFlushReturnsEarly ==
    [][FlushCameBackShort
        => (pc' = "idle" /\ last'.err = "none" /\ last'.ret < length)]_vars

\* C14: a write call that returns a count n leaves tell() at its value before
\* the call plus n, and size() at the larger of its old value and the new tell().
C14_WriteBookkeeping ==
    [][(WriteLoop /\ pc' = "idle" /\ last'.err = "none")
        => /\ currentOffset' = currentOffset + last'.ret
           /\ fileSize' = Max(fileSize, currentOffset')]_vars

\* The same for the calls that return the length they were given.
FullWriteBookkeeping ==
    [][(WriteLoop /\ pc' = "idle" /\ last'.err = "none" /\ last'.ret = length)
        => /\ currentOffset' = currentOffset + last'.ret
           /\ fileSize' = Max(fileSize, currentOffset')]_vars

\* A step that calls flush() on the buffer as the step finds it.
FlushRuns == (\E position \in 0..MaxPos : Seek(position)) \/ Close \/ (Release /\ owners = 1)

\* The ::write calls in a log.
Writes(log) == { i \in DOMAIN log : log[i].call = "write" }

\* flush() with nothing staged or on a channel opened in Read mode: no ::write,
\* a return of 0, the buffer and the file as they were.
FlushIsNoOp ==
    /\ Writes(natives') = {} /\ buffer_' = buffer_ /\ disk' = disk
    /\ \A f \in Flush(buffer_) : f.nFlushed = 0 /\ f.calls = 0 /\ f.buffer = buffer_

\* C15 as stated: with bytes staged on a channel opened for writing, flush()
\* issues one ::write of the staged region and then resets the buffer; with
\* nothing staged or in Read mode it issues no ::write, returns 0 and leaves
\* the buffer unchanged.
C15_FlushWritesOnceAndResets ==
    [][FlushRuns =>
        IF Writable /\ buffer_ # <<>>
        THEN /\ Writes(natives') = {1} /\ natives'[1].n = Len(buffer_)
             /\ buffer_' = <<>>
        ELSE FlushIsNoOp]_vars

\* C15 as amended: the buffer is reset when the ::write returns a count (all
\* of the staged bytes or fewer); when the ::write fails, flush() throws and
\* the buffer and the file stay as they were.
C15_FlushWritesOnceAndResetsUnlessFailed ==
    [][FlushRuns =>
        IF Writable /\ buffer_ # <<>>
        THEN /\ Writes(natives') = {1} /\ natives'[1].n = Len(buffer_)
             /\ IF last'.err = "WriteError"
                THEN buffer_' = buffer_ /\ disk' = disk
                ELSE /\ buffer_' = <<>>
                     /\ \E k \in 1..Len(buffer_) :
                            disk' = PWrite(disk, npos, SubSeq(buffer_, 1, k))
        ELSE FlushIsNoOp]_vars

\* A seek has flushed a full buffer in one ::write and moved the descriptor.
C15_Witness ==
    /\ last.op = "seek" /\ last.err = "none" /\ buffer_ = <<>>
    /\ Names(natives) = <<"write", "lseek">> /\ natives[1].n = kBufferSize

\* C16: IOBuffer::write accepts the smaller of the size it is given and the
\* free space, appends that many bytes and returns the count; the cursor stays
\* within 0..kBufferSize, and a full buffer accepts nothing and is unchanged.
C16_BufferAcceptsUpToCapacity ==
    /\ [](Len(buffer_) \in 0..kBufferSize)
    /\ [][WriteLoop =>
            LET remaining == length - nTotalWritten
                free == kBufferSize - Len(buffer_)
                n == IF remaining <= free THEN remaining ELSE free
                flushed == Len(natives') > Len(natives) /\ npos' > npos
            IN  /\ IOBufferWrite(Len(buffer_), remaining) = n
                /\ ~flushed => buffer_' = buffer_ \o SubSeq(data, nTotalWritten + 1,
                                                             nTotalWritten + n)
                /\ flushed => /\ buffer_' = <<>>
                              /\ natives'[Len(natives')].n = Len(buffer_) + n
                /\ pc' = "write" => nTotalWritten' = nTotalWritten + n
                /\ free = 0 => (n = 0 /\ (~flushed => buffer_' = buffer_))]_vars

\* write() is in its loop after an iteration in which the buffer, holding bytes
\* of an earlier call, took only a part of what was left to stage.
C16_Witness ==
    /\ pc = "write" /\ 0 < nTotalWritten /\ nTotalWritten < length
    /\ nTotalWritten < kBufferSize

\* C17: a constructor call on an existing file leaves tell() = 0; in Read mode
\* it keeps the file and size() is its length; in Write mode it empties the
\* file and size() = 0 when truncate is set, and keeps the file, with size()
\* its length, when truncate is not set.
C17_OpenSemantics ==
    [][\A m \in Modes, truncate \in BOOLEAN :
        Reopen(m, truncate)
            => /\ currentOffset' = 0
               /\ m = "Read" => (disk' = disk /\ fileSize' = Len(disk))
               /\ (m = "Write" /\ truncate) => (disk' = <<>> /\ fileSize' = 0)
               /\ (m = "Write" /\ ~truncate) => (disk' = disk /\ fileSize' = Len(disk))]_vars

\* The same without the case of Write mode with truncate not set.
OpenSemanticsWhereNotSuppressed ==
    [][\A m \in Modes, truncate \in BOOLEAN :
        Reopen(m, truncate)
            => /\ currentOffset' = 0
               /\ m = "Read" => (disk' = disk /\ fileSize' = Len(disk))
               /\ m # "Read" => (disk' = <<>> /\ fileSize' = 0)]_vars

\* C18: every call of write() comes to its end, returning or throwing.
C18_WriteTerminates == (pc = "write") ~> (pc = "idle")

\* The same for the calls on a channel opened for writing.
WriteTerminatesWhereWritable == (pc = "write" /\ Writable) ~> (pc = "idle")

\* C19: a write on a channel opened in Read mode has no effect: size(), tell()
\* and the buffer stay as they were and no native call is issued.
C19_WriteInReadModeHasNoEffect ==
    [][(WriteLoop /\ mode = "Read")
        => /\ UNCHANGED <<fileSize, currentOffset, buffer_, disk, npos>>
           /\ natives' = <<>>]_vars

\* The part on the native handle alone.
WriteInReadModeIssuesNoNativeCall ==
    [][(WriteLoop /\ mode = "Read") => (natives' = <<>> /\ UNCHANGED <<disk, npos>>)]_vars

\* The file as the caller has written it: the staged bytes laid over the file
\* at the descriptor's offset.
Logical == IF buffer_ = <<>> THEN disk ELSE PWrite(disk, npos, buffer_)

\* Between calls on an open channel the descriptor's offset plus the number
\* of staged bytes is tell().
OffsetCoherent ==
    (life = "open" /\ pc = "idle" /\ fd # -1) => npos + Len(buffer_) = currentOffset

\* A read in ReadWrite mode returns the bytes at logical offset tell().
ReadAtLogicalOffset ==
    [][\A len \in 0..MaxReadLen :
        (Readsome(len) /\ mode = "ReadWrite" /\ fd # -1 /\ last'.err = "none")
            => \/ last'.ret = 0
               \/ /\ currentOffset + last'.ret <= Len(Logical)
                  /\ last'.data = SubSeq(Logical, currentOffset + 1,
                                         currentOffset + last'.ret)]_vars

\* C20: between calls on an open channel the descriptor's offset plus the
\* number of staged bytes is tell(); and a read in ReadWrite mode returns the
\* bytes at logical offset tell(), also with bytes staged.
C20_OffsetCoherence == []OffsetCoherent /\ ReadAtLogicalOffset

\* A write has failed in its flush and left its bytes staged.
FailedWriteLeavesBytesStaged ==
    /\ life = "open" /\ pc = "idle" /\ Writable
    /\ last.op = "write" /\ last.err = "WriteError"
    /\ npos + Len(buffer_) # currentOffset

====
